---- MODULE Spec2Model ----
(***************************************************************************)
(* XNoteBook: the document-to-searchable-PDF pipeline of src/app.py.       *)
(*                                                                         *)
(* upload_file saves an upload, inserts its row in the uploads table and   *)
(* starts one thread running process_document.  process_document           *)
(* rasterizes the input (input_to_images), runs ocr_with_boxes on every    *)
(* raster, composes the output PDF (create_searchable_pdf), removes the    *)
(* rasters and writes the job's terminal status (update_upload_status).    *)
(*                                                                         *)
(* Strings are modelled as sequences of tokens (a path is the sequence of  *)
(* the pieces its f-string concatenates), recognized text as a sequence of *)
(* characters, the file system as a function from paths to file contents,  *)
(* the uploads table as a function from job_id to its row.                 *)
(***************************************************************************)
EXTENDS Integers, Sequences, FiniteSets, TLC

\* ------------------------------------------------------------------------
\* Bounds of the model
\* ------------------------------------------------------------------------
\* largest number of pages of an uploaded PDF
MaxPages == 2

\* number of uploads accepted (threads running) in the concurrent specification
MaxConcJobs == 2

\* largest number of times process_document is called for one job
MaxRuns == 3

\* ------------------------------------------------------------------------
\* Program constants
\* ------------------------------------------------------------------------
\* the cap on an image's largest dimension set 1000 too low
max_dimension_low == 3000 - 1000

max_dimension == 3000

\* the threshold one lower: a detection at 30 passes
MIN_CONF_low == 30 - 1

MIN_CONF == 30

MIN_FONT == 6

MAX_FONT == 40

RENDER_MODE == 3

OPTIMIZED_DPI == 150

ALLOWED_EXTENSIONS == {"jpg", "jpeg", "png", "pdf"}

UPLOAD_FOLDER == "uploads"

PROCESSED_FOLDER == "processed"

\* Python None / SQL NULL; a present value x is Some(x)
None == << >>

Some(x) == <<x>>

ValueOf(o) == o[1]

\* ------------------------------------------------------------------------
\* Small helpers
\* ------------------------------------------------------------------------
Max2(a, b) == IF a >= b THEN a ELSE b

Min2(a, b) == IF a <= b THEN a ELSE b

Last(s) == s[Len(s)]

\* str(i) for the page indexes the model reaches
IdxStr(i) == <<"0", "1", "2", "3", "4", "5">>[i + 1]

\* str.lower() on the extension tokens of the model
Lower(t) ==
    CASE t = "PDF" -> "pdf"
      [] t = "PNG" -> "png"
      [] t = "JPG" -> "jpg"
      [] OTHER -> t

\* uuid.uuid4(): a value no earlier call returned; n values were drawn before
uuid4(n) == <<"u1", "u2", "u3", "u4", "u5">>[n + 1]

\* ------------------------------------------------------------------------
\* Text: a string is a sequence of characters
\* ------------------------------------------------------------------------
IsSpace(c) == c \in {" ", "\t", "\n"}

RECURSIVE LStrip(_)
LStrip(s) == IF s # <<>> /\ IsSpace(Head(s)) THEN LStrip(Tail(s)) ELSE s

RECURSIVE RStrip(_)
RStrip(s) ==
    IF s # <<>> /\ IsSpace(Last(s)) THEN RStrip(SubSeq(s, 1, Len(s) - 1)) ELSE s

\* str.strip()
Strip(s) == RStrip(LStrip(s))

\* ------------------------------------------------------------------------
\* Inputs: what the OCR engine detects on a raster, uploaded file contents
\* ------------------------------------------------------------------------
Det(t, c, x, y, w, h) ==
    [text |-> t, conf |-> c, left |-> x, top |-> y, width |-> w, height |-> h]

\* rows of pytesseract.image_to_data for three kinds of page
DetsInvoice ==
    << Det(<<"I", "n", "v">>, 92, 10, 10, 100, 20) >>

DetsMixed ==
    << Det(<<>>, -1, 0, 0, 300, 100),
       Det(<<" ", "a", " ">>, 45, 5, 5, 50, 3),
       Det(<<" ", " ">>, 95, 60, 5, 10, 10),
       Det(<<"l", "o">>, 30, 5, 20, 30, 12),
       Det(<<"b", "i", "g">>, 31, 5, 40, 90, 55),
       Det(<<"z">>, 100, 7, 70, 20, 0) >>

DetsNone == << >>

DetSamples == << DetsInvoice, DetsMixed, DetsNone >>

DimSamples == << <<100, 200>>, <<300, 100>> >>

\* page k (0-based) of an uploaded PDF as pdf2image renders it
PdfPage(k) ==
    [w |-> DimSamples[(k % Len(DimSamples)) + 1][1],
     h |-> DimSamples[(k % Len(DimSamples)) + 1][2],
     dets |-> DetSamples[(k % Len(DetSamples)) + 1],
     bad |-> FALSE,
     page |-> k]

Pdf(n) == [fmt |-> "pdf", pages |-> [k \in 1..n |-> PdfPage(k - 1)]]

Img(w, h, d) ==
    [fmt |-> "img",
     pages |-> << [w |-> w, h |-> h, dets |-> d, bad |-> FALSE, page |-> 0] >>]

\* the same file with a page k on which pytesseract.image_to_data raises,
\* every time it is given a raster of that page
Unreadable(c, k) == [c EXCEPT !.pages[k].bad = TRUE]

Corrupt == [fmt |-> "bad", pages |-> << >>]

ImgSamples ==
    { Img(3000, 2000, DetsInvoice), Img(6000, 4000, DetsMixed),
      Img(4177, 100, DetsNone), Img(3001, 1, DetsNone) }

\* the (filename, content) pairs a client posts to /upload
Requests ==
    { <<(<<"a", ".", "pdf">>), Pdf(n)>> : n \in 1..MaxPages }
    \cup { <<(<<"a", ".", "png">>), c>> : c \in ImgSamples }
    \cup { <<(<<"a", ".", "PDF">>), Pdf(1)>>,
           <<(<<"a", ".", "pdf">>), Corrupt>>,
           <<(<<"a", ".", "jpg">>), Corrupt>>,
           <<(<<"a", ".", "txt">>), Pdf(1)>>,
           <<(<<"a">>), Pdf(1)>>,
           <<(<< >>), Corrupt>>,
           <<(<<".", "pdf">>), Pdf(1)>> }

\* the requests of the concurrent specification
ConcRequests ==
    { <<(<<"a", ".", "pdf">>), Pdf(1)>>,
      <<(<<"a", ".", "png">>), Img(6000, 4000, DetsNone)>>,
      <<(<<"a", ".", "txt">>), Pdf(1)>> }

\* the requests of the re-run specification: files the pipeline processes
\* the same way every time, two of them with a page the engine cannot read
RerunRequests ==
    { <<(<<"a", ".", "pdf">>), Pdf(MaxPages)>>,
      <<(<<"a", ".", "pdf">>), Unreadable(Pdf(MaxPages), MaxPages)>>,
      <<(<<"a", ".", "pdf">>), Corrupt>>,
      <<(<<"a", ".", "png">>), Img(3000, 2000, DetsInvoice)>>,
      <<(<<"a", ".", "png">>), Img(6000, 4000, DetsMixed)>>,
      <<(<<"a", ".", "png">>), Unreadable(Img(6000, 4000, DetsNone), 1)>>,
      <<(<<"a", ".", "txt">>), Pdf(1)>> }

\* the calls into the environment that may raise
AllFaults == {"db", "rm", "save", "ocr", "render"}

ConcFaults == {"db", "ocr", "save"}

\* re-runs: only the os.remove calls, whose failure is swallowed, may raise
RerunFaults == {"rm"}

\* whether a call of kind f succeeds, when the calls of F may raise
Ok(F, f) == IF f \in F THEN BOOLEAN ELSE {TRUE}

\* ------------------------------------------------------------------------
\* State
\* ------------------------------------------------------------------------
VARIABLES
    fs,        \* the file system: path -> content of the file at that path
    uploads,   \* the uploads table: job_id -> row
    thr,       \* job_id -> locals and position of its process_document thread
    drawn,     \* number of uuid4 values drawn so far
    log        \* history: job_id -> what the job's thread has called so far

vars == <<fs, uploads, thr, drawn, log>>

Exists(p) == p \in DOMAIN fs

\* open(path, "w").write(c)
WriteFile(f, p, c) == [q \in DOMAIN f \cup {p} |-> IF q = p THEN c ELSE f[q]]

\* os.remove(path) for every path of ps
RemoveFiles(f, ps) == [q \in DOMAIN f \ ps |-> f[q]]

\* ------------------------------------------------------------------------
\* The uploads table
\* ------------------------------------------------------------------------
\* the error_message column defaults to an empty message instead of NULL
NewRow_msg(filename, file_type) ==
    [filename |-> filename, file_type |-> file_type, status |-> "pending",
     error_message |-> Some(<< >>), processed_timestamp |-> None,
     processing_time |-> None]

\* INSERT INTO uploads: status takes its DEFAULT 'pending', the rest NULL
NewRow(filename, file_type) ==
    [filename |-> filename, file_type |-> file_type, status |-> "pending",
     error_message |-> None, processed_timestamp |-> None,
     processing_time |-> None]

\* track_upload: the insert, or nothing when sqlite raises (db_ok = FALSE)
track_upload(tbl, job_id, filename, file_type, db_ok) ==
    IF db_ok /\ job_id \notin DOMAIN tbl
    THEN [j \in DOMAIN tbl \cup {job_id} |->
            IF j = job_id THEN NewRow(filename, file_type) ELSE tbl[j]]
    ELSE tbl

\* the UPDATE without its WHERE clause: every row is written
update_upload_status_all(tbl, job_id, status, error_message, processing_time, db_ok) ==
    IF db_ok
    THEN [j \in DOMAIN tbl |->
            [tbl[j] EXCEPT !.status = status,
                           !.error_message = error_message,
                           !.processed_timestamp = "CURRENT_TIMESTAMP",
                           !.processing_time = processing_time]]
    ELSE tbl

\* update_upload_status: the UPDATE of the job's row (no row: no effect),
\* or nothing when sqlite raises (db_ok = FALSE); never raises itself
update_upload_status(tbl, job_id, status, error_message, processing_time, db_ok) ==
    IF db_ok /\ job_id \in DOMAIN tbl
    THEN [tbl EXCEPT ![job_id] =
            [@ EXCEPT !.status = status,
                      !.error_message = error_message,
                      !.processed_timestamp = "CURRENT_TIMESTAMP",
                      !.processing_time = processing_time]]
    ELSE tbl

\* check_status: GET /status/<job_id>. The row's columns with 200, "Job not
\* found" with 404 when there is no row, 500 when sqlite raises
check_status(tbl, job_id, db_ok) ==
    IF ~db_ok THEN [code |-> 500, status |-> None]
    ELSE IF job_id \in DOMAIN tbl
         THEN [code |-> 200, status |-> Some(tbl[job_id].status)]
         ELSE [code |-> 404, status |-> None]

\* ------------------------------------------------------------------------
\* upload_file
\* ------------------------------------------------------------------------
HasDot(filename) == \E k \in 1..Len(filename) : filename[k] = "."

\* filename.rsplit('.', 1)[1] for a filename that has a dot
RSplitExt(filename) ==
    IF Last(filename) = "." THEN "" ELSE Last(filename)

\* any file name with a dot passes
allowed_file_any(filename) == HasDot(filename)

allowed_file(filename) ==
    HasDot(filename) /\ Lower(RSplitExt(filename)) \in ALLOWED_EXTENSIONS

\* werkzeug secure_filename: leading and trailing dots are stripped
RECURSIVE secure_filename(_)
secure_filename(filename) ==
    IF filename # <<>> /\ Head(filename) = "." THEN secure_filename(Tail(filename))
    ELSE IF filename # <<>> /\ Last(filename) = "."
         THEN secure_filename(SubSeq(filename, 1, Len(filename) - 1))
         ELSE filename

\* the upload is stored under its file name alone
UploadPath_nojob(job_id, filename) == <<UPLOAD_FOLDER, "/">> \o filename

UploadPath(job_id, filename) == <<UPLOAD_FOLDER, "/", job_id, "_">> \o filename

OutputPath(job_id) == <<PROCESSED_FOLDER, "/", job_id, "_editable.pdf">>

NewThread(job_id, upload_path, output_path) ==
    [pc |-> "input_to_images", input_path |-> upload_path,
     output_pdf |-> output_path, job_id |-> job_id,
     image_paths |-> << >>, all_blocks |-> << >>, i |-> 0, k |-> 0,
     doc |-> << >>,
     e |-> None, ret |-> None, elapsed |-> 0]

NewLog ==
    [status_calls |-> << >>, ocr_calls |-> << >>, compose_calls |-> 0,
     opened |-> << >>, saved |-> FALSE, created |-> {}, render_failed |-> {},
     rm_failed |-> FALSE, raised |-> None, runs |-> << >>]

\* requests answered 400 before anything is created
UploadRejected(R) ==
    /\ \E req \in R \cup {None} :
          \/ req = None                           \* 'file' not in request.files
          \/ req # None /\ req[1] = << >>         \* file.filename == ''
          \/ req # None /\ req[1] # << >> /\ ~allowed_file(req[1])
    /\ UNCHANGED vars

\* requests that pass the checks: the try block of upload_file
UploadAccepted(R, F, limit) ==
    /\ drawn < limit
    /\ \E req \in R, save_ok \in Ok(F, "save"), db_ok \in Ok(F, "db") :
          /\ req[1] # << >>
          /\ allowed_file(req[1])
          /\ LET job_id == uuid4(drawn)
                 filename == secure_filename(req[1])
                 upload_path == UploadPath(job_id, filename)
             IN  /\ drawn' = drawn + 1
                 /\ IF ~save_ok
                    THEN \* file.save raised: 500
                         UNCHANGED <<fs, uploads, thr, log>>
                    ELSE IF ~HasDot(filename)
                    THEN \* filename.rsplit('.', 1)[1] raises IndexError: 500
                         /\ fs' = WriteFile(fs, upload_path, req[2])
                         /\ UNCHANGED <<uploads, thr, log>>
                    ELSE /\ fs' = WriteFile(fs, upload_path, req[2])
                         /\ uploads' = track_upload(uploads, job_id, filename,
                                            Lower(RSplitExt(filename)), db_ok)
                         /\ thr' = [j \in DOMAIN thr \cup {job_id} |->
                                      IF j = job_id
                                      THEN NewThread(job_id, upload_path,
                                                     OutputPath(job_id))
                                      ELSE thr[j]]
                         /\ log' = [j \in DOMAIN log \cup {job_id} |->
                                      IF j = job_id THEN NewLog ELSE log[j]]

\* ------------------------------------------------------------------------
\* input_to_images
\* ------------------------------------------------------------------------
Exc(stage, text) == [stage |-> stage, text |-> text]

\* str(e)
Str(e) == e.text

\* input_path.lower().endswith(".pdf")
EndsWithPdf(path) ==
    /\ Len(path) >= 2
    /\ path[Len(path) - 1] = "."
    /\ Lower(Last(path)) = "pdf"

\* the page index is left out of the path
PagePath_same(input_path, i) == input_path \o <<"_page_", ".jpg">>

\* f"{input_path}_page_{i}.jpg"
PagePath(input_path, i) == input_path \o <<"_page_", IdxStr(i), ".jpg">>

\* the resized copy is saved over the uploaded file
ResizedPath_inplace(input_path) == input_path

\* f"{input_path}_resized.jpg"
ResizedPath(input_path) == input_path \o <<"_resized.jpg">>

\* the preprocessed image is written over the raster it was made from
PreprocessedPath_same(image_path) == image_path

\* f"{image_path}_preprocessed.png"
PreprocessedPath(image_path) == image_path \o <<"_preprocessed.png">>

\* (dim, max(img.size)) for which the double dim * (3000 / max) is the
\* double just below the exact integer quotient
RoundsBelow == { <<4177, 4177>> }

\* int(dim * ratio) with ratio = max_dimension / max(img.size) in doubles:
\* the floor of the exact quotient, except where the rounded product falls
\* just below an exact integer
IntDimRatio(dim, m) ==
    LET exact == (dim * max_dimension) \div m
    IN  IF (dim * max_dimension) % m = 0 /\ <<dim, m>> \in RoundsBelow
        THEN exact - 1
        ELSE exact

\* new_size = tuple(int(dim * ratio) for dim in img.size)
NewSize(w, h) ==
    <<IntDimRatio(w, Max2(w, h)), IntDimRatio(h, Max2(w, h))>>

\* a raster file: the pixel size, what the engine detects on it, its origin
Raster(w, h, src, job_id, page) ==
    [fmt |-> "img",
     pages |-> << [w |-> w, h |-> h, dets |-> src.dets, bad |-> src.bad,
                   page |-> page] >>,
     of |-> job_id]

Width(c) == c.pages[1].w

Height(c) == c.pages[1].h

\* the loop over image_paths is entered when there is a raster to OCR
AfterRaster(paths) == IF paths = << >> THEN "save" ELSE "ocr"

Raise(t, l, j, e) ==
    /\ thr' = [t EXCEPT ![j].pc = "except", ![j].e = Some(e),
                        ![j].elapsed = @ + 1]
    /\ log' = [l EXCEPT ![j].raised = Some(e)]

\* the PDF branch: pages 0..k-1 are saved; k < n means page.save raised at k
PdfToImages(j, t, F) ==
    LET input_path == t.input_path
    IN  IF ~Exists(input_path) \/ fs[input_path].fmt # "pdf"
        THEN /\ Raise(thr, log, j, Exc("input_to_images", "PDFPageCountError"))
             /\ UNCHANGED fs
        ELSE LET pages == fs[input_path].pages
                 n == Len(pages)
             IN  \E k \in (IF "save" \in F THEN 0..n ELSE {n}) :
                   LET paths == [i \in 1..k |-> PagePath(input_path, i - 1)]
                       written == { paths[i] : i \in 1..k }
                   IN  /\ fs' = [q \in DOMAIN fs \cup written |->
                                   IF q \in written
                                   THEN LET i == CHOOSE i \in 1..k : paths[i] = q
                                        IN  Raster(pages[i].w, pages[i].h,
                                                   pages[i], t.job_id, i - 1)
                                   ELSE fs[q]]
                       /\ IF k < n
                          THEN Raise(thr,
                                     [log EXCEPT ![j].created = @ \cup written],
                                     j, Exc("input_to_images", "OSError"))
                          ELSE /\ thr' = [thr EXCEPT ![j].image_paths = paths,
                                                     ![j].pc = AfterRaster(paths),
                                                     ![j].elapsed = @ + 1]
                               /\ log' = [log EXCEPT ![j].created = @ \cup written]

\* the image branch: pass through, or write the resized copy
ImageToImages(j, t, F) ==
    LET input_path == t.input_path
    IN  IF ~Exists(input_path) \/ fs[input_path].fmt # "img"
        THEN /\ Raise(thr, log, j, Exc("input_to_images", "UnidentifiedImageError"))
             /\ UNCHANGED fs
        ELSE LET img == fs[input_path]
                 w == Width(img)
                 h == Height(img)
             IN  IF Max2(w, h) > max_dimension
                 THEN LET new_size == NewSize(w, h)
                          resized_path == ResizedPath(input_path)
                      IN  IF new_size[1] <= 0 \/ new_size[2] <= 0
                          THEN /\ Raise(thr, log, j,
                                        Exc("input_to_images", "ValueError"))
                               /\ UNCHANGED fs
                          ELSE \E save_ok \in Ok(F, "save") :
                                 IF save_ok
                                 THEN /\ fs' = WriteFile(fs, resized_path,
                                                 Raster(new_size[1], new_size[2],
                                                        img.pages[1],
                                                        t.job_id, 0))
                                      /\ thr' = [thr EXCEPT
                                                   ![j].image_paths = <<resized_path>>,
                                                   ![j].pc = "ocr",
                                                   ![j].elapsed = @ + 1]
                                      /\ log' = [log EXCEPT
                                                   ![j].created = @ \cup {resized_path}]
                                 ELSE /\ Raise(thr, log, j,
                                               Exc("input_to_images", "OSError"))
                                      /\ UNCHANGED fs
                 ELSE /\ thr' = [thr EXCEPT ![j].image_paths = <<input_path>>,
                                            ![j].pc = "ocr",
                                            ![j].elapsed = @ + 1]
                      /\ UNCHANGED <<fs, log>>

\* process_document: image_paths = input_to_images(input_path, dpi)
InputToImages(j, F) ==
    /\ j \in DOMAIN thr
    /\ thr[j].pc = "input_to_images"
    /\ IF EndsWithPdf(thr[j].input_path)
       THEN PdfToImages(j, thr[j], F)
       ELSE ImageToImages(j, thr[j], F)
    /\ UNCHANGED <<uploads, drawn>>

\* ------------------------------------------------------------------------
\* preprocess_image and ocr_with_boxes
\* ------------------------------------------------------------------------
\* the thresholded copy cv2.imwrite saves: same pixels, same detections
Preprocessed(c) ==
    [fmt |-> "img", pages |-> c.pages, of |-> "preprocess_image"]

BBox(x, y, w, h) == << <<x, y>>, <<x + w, y>>, <<x + w, y + h>>, <<x, y + h>> >>

\* the native 0-100 value is stored without the division
Confidence_raw(conf) == [num |-> conf, den |-> 1]

\* data['conf'][i] / 100.0, as the fraction num / den
Confidence(conf) == [num |-> conf, den |-> 100]

Block(d) ==
    [bbox |-> BBox(d.left, d.top, d.width, d.height),
     text |-> Strip(d.text),
     confidence |-> Confidence(d.conf)]

\* the empty-text test applied to the text as reported, before strip()
Keeps_nostrip(d) == d.conf > MIN_CONF /\ d.text # << >>

\* the test of the loop body: confidence filter, then the empty-text filter
Keeps(d) == d.conf > MIN_CONF /\ Strip(d.text) # << >>

\* the loop over the n_boxes rows of image_to_data
RECURSIVE Blocks(_)
Blocks(data) ==
    IF data = << >> THEN << >>
    ELSE IF Keeps(Head(data))
         THEN <<Block(Head(data))>> \o Blocks(Tail(data))
         ELSE Blocks(Tail(data))

\* a failed OCR call is swallowed and the loop goes on
AfterOcr_swallowed(ocr_ok, last) == IF ocr_ok /\ last THEN "compose" ELSE "ocr"

\* where process_document continues after ocr_with_boxes(img): an exception
\* leaves the loop for the except block, the last page ends the loop
AfterOcr(ocr_ok, last) ==
    IF ~ocr_ok THEN "except" ELSE IF last THEN "compose" ELSE "ocr"

\* the block list of a page is put in front of those of the earlier pages
AppendBlocks_front(all_blocks, blocks) == <<blocks>> \o all_blocks

\* all_blocks.append(blocks)
AppendBlocks(all_blocks, blocks) == Append(all_blocks, blocks)

\* blocks = ocr_with_boxes(img); all_blocks.append(blocks)
OcrWithBoxes(j, F) ==
    /\ j \in DOMAIN thr
    /\ thr[j].pc = "ocr"
    /\ thr[j].i < Len(thr[j].image_paths)
    /\ LET t == thr[j]
           image_path == t.image_paths[t.i + 1]
           processed_path == PreprocessedPath(image_path)
           last == t.i + 1 = Len(t.image_paths)
           l == [log EXCEPT ![j].ocr_calls = Append(@, image_path)]
       IN  IF ~Exists(image_path) \/ fs[image_path].fmt # "img"
           THEN \* cv2.imread returns None and cv2.cvtColor raises
                /\ Raise(thr, l, j, Exc("ocr_with_boxes", "cv2.error"))
                /\ UNCHANGED fs
           ELSE LET written == WriteFile(fs, processed_path,
                                         Preprocessed(fs[image_path]))
                    lw == [l EXCEPT ![j].created = @ \cup {processed_path}]
                    e == Exc("ocr_with_boxes", "TesseractError")
                    readable == ~written[processed_path].pages[1].bad
                IN  \E ocr_ok \in { b /\ readable : b \in Ok(F, "ocr") },
                       rm_ok \in Ok(F, "rm") :
                      IF ~ocr_ok
                      THEN \* pytesseract.image_to_data raises: the os.remove
                           \* after the loop is not reached
                           /\ rm_ok
                           /\ fs' = written
                           /\ thr' = [thr EXCEPT
                                        ![j].pc = AfterOcr(ocr_ok, last),
                                        ![j].e = Some(e),
                                        ![j].elapsed = @ + 1]
                           /\ log' = [lw EXCEPT ![j].raised = Some(e)]
                      ELSE LET blocks == Blocks(written[processed_path].pages[1].dets)
                           IN  /\ fs' = IF rm_ok
                                        THEN RemoveFiles(written, {processed_path})
                                        ELSE written
                               /\ thr' = [thr EXCEPT
                                            ![j].all_blocks = AppendBlocks(@, blocks),
                                            ![j].i = @ + 1,
                                            ![j].pc = AfterOcr(ocr_ok, last),
                                            ![j].elapsed = @ + 1]
                               /\ log' = [lw EXCEPT ![j].rm_failed = @ \/ ~rm_ok]
    /\ UNCHANGED <<uploads, drawn>>

\* ------------------------------------------------------------------------
\* create_searchable_pdf
\* ------------------------------------------------------------------------
\* font_size = max(6.0, min(40.0, y2 - y1))
FontSize(y1, y2) == Max2(MIN_FONT, Min2(MAX_FONT, y2 - y1))

\* "if not text or font_size <= 0: continue"
Skips(block) ==
    block.text = << >> \/ FontSize(block.bbox[1][2], block.bbox[3][2]) <= 0

\* the text is inserted at the top-left corner instead of the bottom-left
TextRun_top(block) ==
    [text |-> block.text,
     x |-> block.bbox[1][1],
     y |-> block.bbox[1][2],
     fontsize |-> FontSize(block.bbox[1][2], block.bbox[3][2]),
     fontname |-> "helv",
     render_mode |-> RENDER_MODE]

\* page.insert_text(fitz.Point(x1, y2), text, fontsize, "helv", render_mode=3)
TextRun(block) ==
    [text |-> block.text,
     x |-> block.bbox[1][1],
     y |-> block.bbox[3][2],
     fontsize |-> FontSize(block.bbox[1][2], block.bbox[3][2]),
     fontname |-> "helv",
     render_mode |-> RENDER_MODE]

\* the first insert_text that raises ends the loop over the page's blocks
RECURSIVE Runs_break(_, _, _)
Runs_break(blocks, n, failing) ==
    IF n > Len(blocks) \/ n \in failing THEN << >>
    ELSE IF Skips(blocks[n])
         THEN Runs_break(blocks, n + 1, failing)
         ELSE <<TextRun(blocks[n])>> \o Runs_break(blocks, n + 1, failing)

\* the text runs of one page; insert_text raises for the blocks of failing
RECURSIVE Runs(_, _, _)
Runs(blocks, n, failing) ==
    IF n > Len(blocks) THEN << >>
    ELSE IF Skips(blocks[n]) \/ n \in failing
         THEN Runs(blocks, n + 1, failing)
         ELSE <<TextRun(blocks[n])>> \o Runs(blocks, n + 1, failing)

\* zip(image_paths, all_blocks)
ZipLen(image_paths, all_blocks) == Min2(Len(image_paths), Len(all_blocks))

\* one iteration of the loop over zip(image_paths, all_blocks)
ComposePage(j, F) ==
    /\ j \in DOMAIN thr
    /\ thr[j].pc = "compose"
    /\ thr[j].k < ZipLen(thr[j].image_paths, thr[j].all_blocks)
    /\ LET t == thr[j]
           img_path == t.image_paths[t.k + 1]
           blocks == t.all_blocks[t.k + 1]
           l == [log EXCEPT
                   ![j].compose_calls = IF t.k = 0 THEN @ + 1 ELSE @,
                   ![j].opened = Append(@, [path |-> img_path,
                                            existed |-> Exists(img_path)])]
       IN  IF ~Exists(img_path) \/ fs[img_path].fmt # "img"
           THEN Raise(thr, l, j, Exc("create_searchable_pdf", "FileNotFoundError"))
           ELSE \E failing \in SUBSET { n \in 1..Len(blocks) :
                                           ~Skips(blocks[n]) /\ "render" \in F } :
                  LET page == [width |-> Width(fs[img_path]),
                               height |-> Height(fs[img_path]),
                               image |-> img_path,
                               source |-> fs[img_path].pages[1].page,
                               runs |-> Runs(blocks, 1, failing)]
                      last == t.k + 1 = ZipLen(t.image_paths, t.all_blocks)
                  IN  /\ thr' = [thr EXCEPT
                                   ![j].doc = Append(@, page),
                                   ![j].k = @ + 1,
                                   ![j].pc = IF last THEN "save" ELSE "compose",
                                   ![j].elapsed = @ + 1]
                      /\ log' = [l EXCEPT ![j].render_failed =
                                    @ \cup { <<t.k, n>> : n \in failing }]
    /\ UNCHANGED <<fs, uploads, drawn>>

\* a failed doc.save is swallowed and the run goes on to the cleanup
AfterSave_swallowed(outcome) == "cleanup"

\* where process_document continues after create_searchable_pdf: an
\* exception of doc.save reaches the except block
AfterSave(outcome) == IF outcome = "saved" THEN "cleanup" ELSE "except"

\* doc.save(output_pdf, ...); doc.close().  A save that raises may leave a
\* truncated file behind.
SaveDoc(j, F) ==
    /\ j \in DOMAIN thr
    /\ thr[j].pc = "save"
    /\ LET t == thr[j]
           l == [log EXCEPT ![j].compose_calls = IF t.k = 0 THEN @ + 1 ELSE @]
           e == Exc("create_searchable_pdf", "save failed")
       IN  \E outcome \in (IF "save" \in F THEN {"saved", "raised", "truncated"}
                                            ELSE {"saved"}) :
             /\ thr' = [thr EXCEPT
                          ![j].pc = AfterSave(outcome),
                          ![j].e = IF outcome = "saved" THEN @ ELSE Some(e),
                          ![j].elapsed = @ + 1]
             /\ CASE outcome = "saved" ->
                    /\ fs' = WriteFile(fs, t.output_pdf,
                                       [fmt |-> "pdf", pages |-> t.doc])
                    /\ log' = [l EXCEPT ![j].saved = TRUE,
                                        ![j].created = @ \cup {t.output_pdf}]
               [] outcome = "raised" ->
                    /\ fs' = fs
                    /\ log' = [l EXCEPT ![j].raised = Some(e)]
               [] outcome = "truncated" ->
                    /\ fs' = WriteFile(fs, t.output_pdf,
                                       [fmt |-> "bad", pages |-> << >>])
                    /\ log' = [l EXCEPT ![j].raised = Some(e),
                                        ![j].created = @ \cup {t.output_pdf}]
    /\ UNCHANGED <<uploads, drawn>>

\* ------------------------------------------------------------------------
\* process_document: cleanup, the terminal status writes
\* ------------------------------------------------------------------------
Range(s) == { s[n] : n \in 1..Len(s) }

\* every raster is removed, the one that is the uploaded file included
Removable_all(t) == Range(t.image_paths)

\* the rasters the cleanup loop removes: every image path but input_path
Removable(t) == { img \in Range(t.image_paths) : img # t.input_path }

\* "for img in image_paths: if img != input_path: os.remove(img)"; os.remove
\* raises for the files of failing and the bare except swallows it
Cleanup(j, F) ==
    /\ j \in DOMAIN thr
    /\ thr[j].pc = "cleanup"
    /\ \E failing \in SUBSET { img \in Removable(thr[j]) : "rm" \in F } :
         /\ fs' = RemoveFiles(fs, Removable(thr[j]) \ failing)
         /\ log' = [log EXCEPT ![j].rm_failed = @ \/ failing # {}]
    /\ thr' = [thr EXCEPT ![j].pc = "completed", ![j].elapsed = @ + 1]
    /\ UNCHANGED <<uploads, drawn>>

StatusCall(tbl, job_id, status, error_message, processing_time, db_ok) ==
    [status |-> status, error_message |-> error_message,
     processing_time |-> processing_time,
     committed |-> db_ok /\ job_id \in DOMAIN tbl]

\* update_upload_status(job_id, 'completed', processing_time=...); return True
MarkCompleted(j, F) ==
    /\ j \in DOMAIN thr
    /\ thr[j].pc = "completed"
    /\ \E db_ok \in Ok(F, "db") :
         LET processing_time == Some(thr[j].elapsed + 1)
         IN  /\ uploads' = update_upload_status(uploads, thr[j].job_id, "completed",
                                                None, processing_time, db_ok)
             /\ log' = [log EXCEPT ![j].status_calls =
                          Append(@, StatusCall(uploads, thr[j].job_id, "completed",
                                               None, processing_time, db_ok))]
    /\ thr' = [thr EXCEPT ![j].pc = "done", ![j].ret = Some(TRUE),
                          ![j].elapsed = @ + 1]
    /\ UNCHANGED <<fs, drawn>>

\* the message is not passed on
FailureMessage_none(e) == None

\* the error_message argument of the failed write: str(e)
FailureMessage(e) == Some(Str(e))

\* except Exception as e: update_upload_status(job_id, 'failed', str(e),
\* processing_time); return False
MarkFailed(j, F) ==
    /\ j \in DOMAIN thr
    /\ thr[j].pc = "except"
    /\ \E db_ok \in Ok(F, "db") :
         LET processing_time == Some(thr[j].elapsed + 1)
             error_message == FailureMessage(ValueOf(thr[j].e))
         IN  /\ uploads' = update_upload_status(uploads, thr[j].job_id, "failed",
                                                error_message, processing_time, db_ok)
             /\ log' = [log EXCEPT ![j].status_calls =
                          Append(@, StatusCall(uploads, thr[j].job_id, "failed",
                                               error_message, processing_time,
                                               db_ok))]
    /\ thr' = [thr EXCEPT ![j].pc = "done", ![j].ret = Some(FALSE),
                          ![j].elapsed = @ + 1]
    /\ UNCHANGED <<fs, drawn>>

\* page count and per-page text runs of a written PDF
Structure(c) ==
    [pages |-> Len(c.pages),
     texts |-> [p \in 1..Len(c.pages) |-> c.pages[p].runs]]

\* what a finished call of process_document leaves: its return value, the
\* status it reported and the structure of the file at output_pdf, if any
Summary(j) ==
    [ret |-> thr[j].ret,
     status |-> [n \in 1..Len(log[j].status_calls) |->
                    log[j].status_calls[n].status],
     output |-> IF Exists(thr[j].output_pdf)
                THEN Some(Structure(fs[thr[j].output_pdf]))
                ELSE None]

\* process_document(input_path, output_pdf, job_id) is called again with the
\* arguments of the finished call, on the files the earlier calls left
Rerun(j, limit) ==
    /\ j \in DOMAIN thr
    /\ thr[j].pc = "done"
    /\ Len(log[j].runs) + 1 < limit
    /\ thr' = [thr EXCEPT ![j] = NewThread(thr[j].job_id, thr[j].input_path,
                                           thr[j].output_pdf)]
    /\ log' = [log EXCEPT ![j] =
                 [NewLog EXCEPT !.runs = Append(log[j].runs, Summary(j))]]
    /\ UNCHANGED <<fs, uploads, drawn>>

\* ------------------------------------------------------------------------
\* Specifications
\* ------------------------------------------------------------------------
Init ==
    /\ fs = << >>
    /\ uploads = << >>
    /\ thr = << >>
    /\ log = << >>
    /\ drawn = 0

\* one step of one process_document thread
ThreadStep(j, F) ==
    \/ InputToImages(j, F)
    \/ OcrWithBoxes(j, F)
    \/ ComposePage(j, F)
    \/ SaveDoc(j, F)
    \/ Cleanup(j, F)
    \/ MarkCompleted(j, F)
    \/ MarkFailed(j, F)

JobIds == { uuid4(n) : n \in 0..4 }

Next ==
    \/ UploadRejected(Requests)
    \/ UploadAccepted(Requests, AllFaults, 1)
    \/ \E j \in JobIds : ThreadStep(j, AllFaults)

\* one upload of every kind, every call into the environment may raise
Spec == Init /\ [][Next]_vars

NextConc ==
    \/ UploadRejected(ConcRequests)
    \/ UploadAccepted(ConcRequests, ConcFaults, MaxConcJobs)
    \/ \E j \in JobIds : ThreadStep(j, ConcFaults)

\* several uploads whose threads interleave; sqlite and the OCR engine may raise
SpecConc == Init /\ [][NextConc]_vars

NextRerun ==
    \/ UploadRejected(RerunRequests)
    \/ UploadAccepted(RerunRequests, RerunFaults, 1)
    \/ \E j \in JobIds : ThreadStep(j, RerunFaults)
    \/ \E j \in JobIds : Rerun(j, MaxRuns)

\* one upload whose process_document is called again after it returned
SpecRerun == Init /\ [][NextRerun]_vars

\* ------------------------------------------------------------------------
\* Properties
\* ------------------------------------------------------------------------
Done(j) == thr[j].pc = "done"

Terminal(status) == status \in {"completed", "failed"}

HasRow(j) == j \in DOMAIN uploads

\* the terminal status calls the thread of j has issued with this status
CallsWith(j, status) ==
    { n \in 1..Len(log[j].status_calls) : log[j].status_calls[n].status = status }

\* the compositor's save of output_pdf finished: the file holds the document
SavedOutput(j) ==
    /\ log[j].saved
    /\ Exists(thr[j].output_pdf)
    /\ fs[thr[j].output_pdf] = [fmt |-> "pdf", pages |-> thr[j].doc]

\* C1: a job is recorded completed (by the call process_document issues and in
\* its row of the uploads table) only if create_searchable_pdf returned after
\* doc.save wrote the document to output_path.
C1_CompletedOnlyAfterSave ==
    \A j \in DOMAIN thr :
        /\ CallsWith(j, "completed") # {} => SavedOutput(j)
        /\ (HasRow(j) /\ uploads[j].status = "completed") => SavedOutput(j)

C1_Witness ==
    \E j \in DOMAIN thr :
        /\ HasRow(j)
        /\ uploads[j].status = "completed"
        /\ Len(thr[j].doc) = 2

\* C2: a job's status leaves pending only for processing, at the start of
\* process_document: no step takes a row from pending to completed or failed.
C2_ThroughProcessing ==
    [][\A j \in DOMAIN uploads :
          uploads[j].status = "pending" =>
              uploads'[j].status \in {"pending", "processing"}]_vars

\* C3: a run of process_document issues exactly one terminal status write
\* (one when it has returned, none before, never a second), and no step of any
\* thread changes a row whose status is completed or failed.
C3_OneTerminalStatus ==
    [][/\ \A j \in DOMAIN thr' :
             /\ Len(log'[j].status_calls) <= 1
             /\ Done(j)' <=> Len(log'[j].status_calls) = 1
             /\ \A n \in 1..Len(log'[j].status_calls) :
                    Terminal(log'[j].status_calls[n].status)
       /\ \A j \in DOMAIN uploads :
             Terminal(uploads[j].status) => uploads'[j] = uploads[j]]_vars

C3_Witness ==
    \E j1, j2 \in DOMAIN uploads :
        /\ uploads[j1].status = "completed"
        /\ uploads[j2].status = "failed"
        /\ Done(j1)
        /\ Done(j2)

\* the page images and the resized copy process_document created for job j
TempRasters(j) ==
    { p \in log[j].created :
        \/ p = ResizedPath(thr[j].input_path)
        \/ \E i \in 0..MaxPages : p = PagePath(thr[j].input_path, i) }

\* C4: when process_document has returned, by either path, and no os.remove
\* failed, none of the rasters it created is left on disk.
C4_RastersDeletedOnReturn ==
    \A j \in DOMAIN thr :
        (Done(j) /\ ~log[j].rm_failed) => \A p \in TempRasters(j) : ~Exists(p)

\* C5: after every call of ocr_with_boxes, returned or raised, the
\* preprocessed image of its raster is gone (no os.remove having failed).
C5_PreprocessedDeleted ==
    \A j \in DOMAIN thr :
        ~log[j].rm_failed =>
            \A n \in 1..Len(log[j].ocr_calls) :
                ~Exists(PreprocessedPath(log[j].ocr_calls[n]))

\* the exception process_document caught for job j came out of stage
RaisedIn(j, stage) ==
    log[j].raised # None /\ ValueOf(log[j].raised).stage = stage

\* the row of j shows the write the thread of j issued, where it committed
RowShows(j, call) ==
    (HasRow(j) /\ call.committed) =>
        /\ uploads[j].status = call.status
        /\ uploads[j].error_message = call.error_message
        /\ uploads[j].processing_time = call.processing_time

\* C6: when the OCR call of page k raises, pages after k are never OCRed, the
\* compositor is never invoked, nothing is written at output_path, and the run
\* ends by writing status failed with the OCR exception's text as the message.
C6_OcrFailureAbortsJob ==
    \A j \in DOMAIN thr :
        RaisedIn(j, "ocr_with_boxes") =>
            /\ thr[j].pc \in {"except", "done"}
            /\ log[j].ocr_calls = SubSeq(thr[j].image_paths, 1, thr[j].i + 1)
            /\ Len(thr[j].all_blocks) = thr[j].i
            /\ log[j].compose_calls = 0
            /\ log[j].opened = << >>
            /\ ~log[j].saved
            /\ ~Exists(thr[j].output_pdf)
            /\ Done(j) =>
                 /\ thr[j].ret = Some(FALSE)
                 /\ Len(log[j].status_calls) = 1
                 /\ log[j].status_calls[1].status = "failed"
                 /\ log[j].status_calls[1].error_message
                        = Some(ValueOf(log[j].raised).text)
                 /\ RowShows(j, log[j].status_calls[1])

C6_Witness ==
    \E j \in DOMAIN thr :
        /\ RaisedIn(j, "ocr_with_boxes")
        /\ Len(thr[j].image_paths) >= 2
        /\ thr[j].i = 0
        /\ Done(j)
        /\ HasRow(j)
        /\ uploads[j].status = "failed"
        /\ uploads[j].error_message = Some("TesseractError")

\* the row of j holds what the thread of j itself committed, or is untouched
RowIsOwn(j) ==
    IF \E n \in 1..Len(log[j].status_calls) : log[j].status_calls[n].committed
    THEN \E n \in 1..Len(log[j].status_calls) :
            /\ log[j].status_calls[n].committed
            /\ uploads[j].status = log[j].status_calls[n].status
            /\ uploads[j].error_message = log[j].status_calls[n].error_message
            /\ uploads[j].processing_time = log[j].status_calls[n].processing_time
    ELSE /\ uploads[j].status = "pending"
         /\ uploads[j].error_message = None
         /\ uploads[j].processing_time = None

\* C7: an exception raised in rasterization, preprocessing, OCR or composition
\* takes process_document to its except block and nowhere else: the call
\* returns False after one write of status failed carrying str(e) and the
\* elapsed time, and every job's row holds only what its own thread wrote.
C7_FailureCaughtOnce ==
    \A j \in DOMAIN thr :
        /\ log[j].raised # None =>
             /\ thr[j].pc \in {"except", "done"}
             /\ thr[j].e = log[j].raised
             /\ Done(j) =>
                  /\ thr[j].ret = Some(FALSE)
                  /\ Len(log[j].status_calls) = 1
                  /\ log[j].status_calls[1].status = "failed"
                  /\ log[j].status_calls[1].error_message
                         = Some(ValueOf(log[j].raised).text)
                  /\ log[j].status_calls[1].processing_time
                         = Some(thr[j].elapsed)
        /\ Done(j) => thr[j].ret # None
        /\ HasRow(j) => RowIsOwn(j)

C7_Witness ==
    \E j1, j2 \in DOMAIN uploads :
        /\ j1 # j2
        /\ Done(j1)
        /\ RaisedIn(j1, "create_searchable_pdf")
        /\ uploads[j1].status = "failed"
        /\ uploads[j1].error_message = Some("save failed")
        /\ uploads[j2].status = "pending"
        /\ thr[j2].pc = "ocr"

\* the blocks of page p (1-based) whose insert_text raised
FailedOn(j, p) == { n \in 1..Len(thr[j].all_blocks[p]) : <<p - 1, n>> \in log[j].render_failed }

\* the blocks of page p, in order, that got a text run
RECURSIVE Rendered(_, _, _)
Rendered(blocks, n, failed) ==
    IF n > Len(blocks) THEN << >>
    ELSE IF n \in failed THEN Rendered(blocks, n + 1, failed)
         ELSE <<blocks[n]>> \o Rendered(blocks, n + 1, failed)

\* C8: a block whose insert_text raises is the only thing lost: on every
\* composed page each other block has its text run, in order; the failure
\* never reaches the except block; the remaining pages are composed and, the
\* save succeeding, the run ends with status completed.
C8_BlockFailureSkipsBlockOnly ==
    \A j \in DOMAIN thr :
        /\ \A p \in 1..Len(thr[j].doc) :
             LET kept == Rendered(thr[j].all_blocks[p], 1, FailedOn(j, p))
                 runs == thr[j].doc[p].runs
             IN  /\ Len(runs) = Len(kept)
                 /\ \A m \in 1..Len(kept) :
                        /\ runs[m].text = kept[m].text
                        /\ runs[m].x = kept[m].bbox[1][1]
                        /\ runs[m].y = kept[m].bbox[3][2]
        /\ log[j].render_failed # {} =>
             /\ log[j].raised # None => ValueOf(log[j].raised).text = "save failed"
             /\ thr[j].pc \notin {"compose", "except"} =>
                    Len(thr[j].doc) = Len(thr[j].image_paths)
             /\ (Done(j) /\ log[j].raised = None) =>
                    /\ SavedOutput(j)
                    /\ thr[j].ret = Some(TRUE)
                    /\ log[j].status_calls[1].status = "completed"
                    /\ RowShows(j, log[j].status_calls[1])

C8_Witness ==
    \E j \in DOMAIN thr :
        /\ log[j].render_failed = { <<1, 2>> }
        /\ Done(j)
        /\ HasRow(j)
        /\ uploads[j].status = "completed"
        /\ Len(fs[thr[j].output_pdf].pages) = 2
        /\ Len(fs[thr[j].output_pdf].pages[2].runs) = 2

\* the run of j got past create_searchable_pdf
Composed(j) == thr[j].pc \in {"cleanup", "completed", "done"} /\ log[j].saved

\* the uploaded file of job j, which no step removes or rewrites
Input(j) == fs[thr[j].input_path]

\* C9: a PDF with N pages that is processed successfully gives an output PDF
\* of N pages, page i built from the raster of input page i; the compositor
\* is invoked once, and only after all N pages were OCRed in page order.
C9_PdfPagesPreserved ==
    \A j \in DOMAIN thr :
        /\ log[j].compose_calls <= 1
        /\ log[j].compose_calls = 1 =>
             /\ Len(thr[j].all_blocks) = Len(thr[j].image_paths)
             /\ log[j].ocr_calls = thr[j].image_paths
        /\ (EndsWithPdf(thr[j].input_path) /\ Composed(j)) =>
             LET N == Len(Input(j).pages)
                 out == fs[thr[j].output_pdf]
             IN  /\ log[j].compose_calls = 1
                 /\ Len(log[j].ocr_calls) = N
                 /\ out.fmt = "pdf"
                 /\ Len(out.pages) = N
                 /\ \A i \in 1..N :
                        /\ out.pages[i].source = Input(j).pages[i].page
                        /\ out.pages[i].source = i - 1
                        /\ out.pages[i].image = PagePath(thr[j].input_path, i - 1)
                        /\ out.pages[i].width = Input(j).pages[i].w
                        /\ out.pages[i].height = Input(j).pages[i].h
                        /\ log[j].opened[i].existed

C9_Witness ==
    \E j \in DOMAIN thr :
        /\ EndsWithPdf(thr[j].input_path)
        /\ Len(Input(j).pages) = MaxPages
        /\ Done(j)
        /\ thr[j].ret = Some(TRUE)
        /\ Len(fs[thr[j].output_pdf].pages) = MaxPages

\* the size of the single output page of an image job that was composed
OutSize(j) ==
    <<fs[thr[j].output_pdf].pages[1].width, fs[thr[j].output_pdf].pages[1].height>>

ImageJobDone(j) == ~EndsWithPdf(thr[j].input_path) /\ Composed(j)

Degenerate(block) == block.bbox[3][2] - block.bbox[1][2] = 0

\* the text run of a block is among the runs of a composed page
HasRun(page, block) ==
    \E m \in 1..Len(page.runs) :
        /\ page.runs[m].text = block.text
        /\ page.runs[m].x = block.bbox[1][1]
        /\ page.runs[m].y = block.bbox[3][2]

\* C11: a block with a degenerate bounding box (y2 - y1 = 0) is skipped by the
\* compositor: no composed page carries a text run for it.
C11_DegenerateBoxSkipped ==
    \A j \in DOMAIN thr :
        \A p \in 1..Len(thr[j].doc) :
            \A n \in 1..Len(thr[j].all_blocks[p]) :
                Degenerate(thr[j].all_blocks[p][n]) =>
                    ~HasRun(thr[j].doc[p], thr[j].all_blocks[p][n])

\* what the engine reports on the raster of page p (1-based) of job j: the
\* rows of the uploaded page the raster was made from
Dets(j, p) == Input(j).pages[p].dets

\* a detection with recognized text that is empty or all whitespace
Blank(d) == \A n \in 1..Len(d.text) : IsSpace(d.text[n])

\* the detections of a list that are not blank
NonBlank(data) == { n \in 1..Len(data) : ~Blank(data[n]) }

\* C12: every block process_document hands to create_searchable_pdf has
\* non-empty text with no surrounding whitespace, a page never has more blocks
\* than its raster has non-blank detections, and no text run is empty.
C12_NoBlankTextBlock ==
    \A j \in DOMAIN thr :
        /\ \A p \in 1..Len(thr[j].all_blocks) :
             /\ \A n \in 1..Len(thr[j].all_blocks[p]) :
                    LET text == thr[j].all_blocks[p][n].text
                    IN  /\ text # << >>
                        /\ ~IsSpace(text[1])
                        /\ ~IsSpace(text[Len(text)])
             /\ Len(thr[j].all_blocks[p]) <= Cardinality(NonBlank(Dets(j, p)))
        /\ \A p \in 1..Len(thr[j].doc) :
             \A m \in 1..Len(thr[j].doc[p].runs) :
                 thr[j].doc[p].runs[m].text # << >>

\* a page with a confident all-whitespace detection went through the compositor
C12_Witness ==
    \E j \in DOMAIN thr :
        \E p \in 1..Len(thr[j].doc) :
            /\ \E n \in 1..Len(Dets(j, p)) :
                   /\ Blank(Dets(j, p)[n])
                   /\ Dets(j, p)[n].text # << >>
                   /\ Dets(j, p)[n].conf > 30
            /\ Len(thr[j].doc[p].runs) = 3
            /\ Done(j)

\* the detection a block was made from: same box, same text once stripped
FromDet(block, d) ==
    /\ block.text = Strip(d.text)
    /\ block.bbox[1] = <<d.left, d.top>>
    /\ block.bbox[3] = <<d.left + d.width, d.top + d.height>>

\* C13: every block ocr_with_boxes returned carries a confidence that is the
\* native 0-100 confidence of its detection divided by 100 and lies in [0, 1];
\* the rows reported with -1 yield no block.
C13_ConfidenceNormalized ==
    \A j \in DOMAIN thr :
        \A p \in 1..Len(thr[j].all_blocks) :
            \A n \in 1..Len(thr[j].all_blocks[p]) :
                LET block == thr[j].all_blocks[p][n]
                    c == block.confidence
                IN  /\ c.den > 0
                    /\ 0 <= c.num
                    /\ c.num <= c.den
                    /\ \E m \in 1..Len(Dets(j, p)) :
                           /\ FromDet(block, Dets(j, p)[m])
                           /\ c.num * 100 = Dets(j, p)[m].conf * c.den
                           /\ Dets(j, p)[m].conf # -1

\* a page with a -1 row and a row of native confidence 45 was OCRed: 0.45
C13_Witness ==
    \E j \in DOMAIN thr :
        \E p \in 1..Len(thr[j].all_blocks) :
            /\ \E m \in 1..Len(Dets(j, p)) : Dets(j, p)[m].conf = -1
            /\ \E n \in 1..Len(thr[j].all_blocks[p]) :
                   /\ thr[j].all_blocks[p][n].confidence.num * 100
                          = 45 * thr[j].all_blocks[p][n].confidence.den
                   /\ thr[j].all_blocks[p][n].text = <<"a">>

\* clamp(h, 6.0, 40.0)
Clamp(h) == IF h < 6 THEN 6 ELSE IF h > 40 THEN 40 ELSE h

\* the four corners of the engine rectangle of detection d
Corners(d) ==
    << <<d.left, d.top>>, <<d.left + d.width, d.top>>,
       <<d.left + d.width, d.top + d.height>>, <<d.left, d.top + d.height>> >>

\* C14: every block comes from an engine rectangle (x, y, w, h) whose four
\* corners (x,y), (x+w,y), (x+w,y+h), (x,y+h) are its bbox, and on a composed
\* page every block whose insert_text did not raise has an invisible text run
\* (render mode 3) at baseline (x, y+h) with font size clamp(h, 6, 40).
C14_BoxAndBaseline ==
    \A j \in DOMAIN thr :
        \A p \in 1..Len(thr[j].all_blocks) :
            \A n \in 1..Len(thr[j].all_blocks[p]) :
                LET block == thr[j].all_blocks[p][n]
                IN  \E m \in 1..Len(Dets(j, p)) :
                        LET d == Dets(j, p)[m]
                        IN  /\ block.text = Strip(d.text)
                            /\ block.bbox = Corners(d)
                            /\ (p <= Len(thr[j].doc) /\ n \notin FailedOn(j, p)) =>
                                   \E r \in 1..Len(thr[j].doc[p].runs) :
                                       LET run == thr[j].doc[p].runs[r]
                                       IN  /\ run.text = block.text
                                           /\ run.x = d.left
                                           /\ run.y = d.top + d.height
                                           /\ run.fontsize = Clamp(d.height)
                                           /\ run.render_mode = 3

\* the scenario of the specification: bbox [[10,10],[110,10],[110,30],[10,30]]
\* rendered at baseline (10,30) with font size 20, in a saved document
C14_Witness ==
    \E j \in DOMAIN thr :
        /\ Composed(j)
        /\ \E p \in 1..Len(thr[j].doc) :
               /\ \E n \in 1..Len(thr[j].all_blocks[p]) :
                      thr[j].all_blocks[p][n].bbox
                          = << <<10, 10>>, <<110, 10>>, <<110, 30>>, <<10, 30>> >>
               /\ \E r \in 1..Len(thr[j].doc[p].runs) :
                      /\ thr[j].doc[p].runs[r].x = 10
                      /\ thr[j].doc[p].runs[r].y = 30
                      /\ thr[j].doc[p].runs[r].fontsize = 20
                      /\ thr[j].doc[p].runs[r].render_mode = 3

\* the file at input_path is on disk with the same content after the step
InputKept(j) ==
    /\ thr[j].input_path \in DOMAIN fs'
    /\ fs'[thr[j].input_path] = fs[thr[j].input_path]

\* C15: from the moment the worker thread of a job exists, the uploaded file
\* at its input_path is on disk, and no step of any process_document removes
\* or rewrites it, whether the run succeeds or fails.
C15_InputNeverTouched ==
    /\ [](\A j \in DOMAIN thr : Exists(thr[j].input_path))
    /\ [][\A j \in DOMAIN thr : InputKept(j)]_vars

\* a small image was its own raster, cleanup has run and the call returned
\* True; the uploaded file is still there
C15_Witness ==
    \E j \in DOMAIN thr :
        /\ Done(j)
        /\ thr[j].ret = Some(TRUE)
        /\ thr[j].image_paths = <<thr[j].input_path>>
        /\ ~EndsWithPdf(thr[j].input_path)
        /\ Exists(thr[j].input_path)
        /\ fs[thr[j].input_path].fmt = "img"

\* every path process_document and the upload handler create, read or delete
\* for job j: the upload, the rasters, their preprocessed copies, the output
Touched(j, t, l) ==
    {t[j].input_path, t[j].output_pdf}
        \cup l[j].created
        \cup Range(t[j].image_paths)
        \cup { PreprocessedPath(img) : img \in Range(t[j].image_paths) }

\* the paths whose file a step created, removed or rewrote
Changed ==
    { p \in DOMAIN fs \cup DOMAIN fs' :
          \/ p \notin DOMAIN fs
          \/ p \notin DOMAIN fs'
          \/ fs'[p] # fs[p] }

\* the jobs a step started or advanced
Stepped == { j \in DOMAIN thr' : j \notin DOMAIN thr \/ thr'[j] # thr[j] }

\* C16: two jobs with distinct job_ids never share a path, and every file a
\* step creates, rewrites or deletes belongs to the one job that took the
\* step, so no interleaving lets a job overwrite or delete another job's file.
C16_NoCrossJobPaths ==
    /\ [](\A j1, j2 \in DOMAIN thr :
              j1 # j2 => Touched(j1, thr, log) \cap Touched(j2, thr, log) = {})
    /\ [][\A p \in Changed :
              /\ Cardinality(Stepped) = 1
              /\ \A j \in DOMAIN thr' :
                     p \in Touched(j, thr', log') <=> j \in Stepped]_vars

\* two jobs, one a PDF split into page rasters and one an oversized image
\* with a resized copy, have both written their output and run to the end
C16_Witness ==
    \E j1, j2 \in DOMAIN thr :
        /\ j1 # j2
        /\ Done(j1) /\ Done(j2)
        /\ log[j1].saved /\ log[j2].saved
        /\ \E p \in log[j1].created : p = PagePath(thr[j1].input_path, 0)
        /\ \E p \in log[j2].created : p = ResizedPath(thr[j2].input_path)

\* what a submitter polling /status/<job_id> is answered, sqlite answering
Polled(j) == check_status(uploads, j, TRUE)

\* C17: once the worker thread of an accepted upload has ended, which is the
\* last point at which its row can change, a submitter polling
\* /status/<job_id> is answered completed or failed, also when the insert of
\* the row or the write of the status raised.
C17_PollSeesTerminalStatus ==
    \A j \in DOMAIN thr :
        Done(j) =>
            /\ Polled(j).code = 200
            /\ Polled(j).status \in {Some("completed"), Some("failed")}

\* C19: in every row of the uploads table the error message is present only
\* when the status is failed (it is null in a pending and in a completed
\* row), and the processing time is present exactly when the status is
\* completed or failed.
C19_ErrorOnlyWhenFailed ==
    \A j \in DOMAIN uploads :
        /\ uploads[j].status \in {"pending", "completed", "failed"}
        /\ uploads[j].error_message # None => uploads[j].status = "failed"
        /\ uploads[j].status = "pending" => uploads[j].error_message = None
        /\ uploads[j].status = "completed" => uploads[j].error_message = None
        /\ uploads[j].processing_time # None <=> Terminal(uploads[j].status)

\* a completed row without message next to a failed row with its message,
\* both with their processing time
C19_Witness ==
    \E j1, j2 \in DOMAIN uploads :
        /\ uploads[j1].status = "completed"
        /\ uploads[j1].error_message = None
        /\ uploads[j1].processing_time # None
        /\ uploads[j2].status = "failed"
        /\ uploads[j2].error_message # None
        /\ uploads[j2].processing_time # None

\* text and box of the detections of data, from the n-th on and in their
\* order, whose trimmed text is not empty and whose confidence is at least lo
RECURSIVE KeptFrom(_, _, _)
KeptFrom(data, n, lo) ==
    IF n > Len(data) THEN << >>
    ELSE IF data[n].conf >= lo /\ Strip(data[n].text) # << >>
         THEN <<[text |-> Strip(data[n].text), bbox |-> Corners(data[n])]>>
                  \o KeptFrom(data, n + 1, lo)
         ELSE KeptFrom(data, n + 1, lo)

\* text and box of the blocks ocr_with_boxes returned, in their order
Returned(blocks) ==
    [n \in 1..Len(blocks) |-> [text |-> blocks[n].text, bbox |-> blocks[n].bbox]]

\* C20 as stated: the blocks returned for a page are exactly the detections
\* with non-empty trimmed text and a native confidence of 30 or above, in
\* detection order.
C20_KeepsThirtyAndAbove ==
    \A j \in DOMAIN thr :
        \A p \in 1..Len(thr[j].all_blocks) :
            Returned(thr[j].all_blocks[p]) = KeptFrom(Dets(j, p), 1, 30)

\* C20 amended: the blocks returned for a page are exactly the detections
\* with non-empty trimmed text and a native confidence above 30 (31 or more;
\* a detection at exactly 30 is discarded), in detection order.
C20_KeepsAboveThirty ==
    \A j \in DOMAIN thr :
        \A p \in 1..Len(thr[j].all_blocks) :
            Returned(thr[j].all_blocks[p]) = KeptFrom(Dets(j, p), 1, 31)

\* a page with a detection at exactly 30 and one at 31 was OCRed: three of
\* its six rows are returned
C20_Witness ==
    \E j \in DOMAIN thr :
        \E p \in 1..Len(thr[j].all_blocks) :
            /\ \E n \in 1..Len(Dets(j, p)) :
                   Dets(j, p)[n].conf = 30 /\ ~Blank(Dets(j, p)[n])
            /\ \E n \in 1..Len(Dets(j, p)) : Dets(j, p)[n].conf = 31
            /\ Len(thr[j].all_blocks[p]) = 3

\* the calls of process_document for job j that have returned, oldest first
FinishedRuns(j) ==
    log[j].runs \o (IF Done(j) THEN <<Summary(j)>> ELSE << >>)

\* C18: every call of process_document on the same input with the same job_id
\* ends with the same single terminal status, the same return value and an
\* output file of the same page count and per-page text runs (or none) as
\* every earlier call, whatever files the earlier calls left behind.
C18_RerunSameResult ==
    \A j \in DOMAIN thr :
        \A a, b \in 1..Len(FinishedRuns(j)) :
            /\ Len(FinishedRuns(j)[a].status) = 1
            /\ Terminal(FinishedRuns(j)[a].status[1])
            /\ FinishedRuns(j)[a].status = FinishedRuns(j)[b].status
            /\ FinishedRuns(j)[a].ret = FinishedRuns(j)[b].ret
            /\ FinishedRuns(j)[a].output = FinishedRuns(j)[b].output

\* the first call failed at the OCR of the last page and left its page rasters
\* and a preprocessed image behind; the second call has returned as well
C18_Witness ==
    \E j \in DOMAIN thr :
        /\ Done(j)
        /\ Len(log[j].runs) = 1
        /\ log[j].runs[1].ret = Some(FALSE)
        /\ log[j].runs[1].status = <<"failed">>
        /\ thr[j].ret = Some(FALSE)
        /\ Exists(PagePath(thr[j].input_path, 0))
        /\ \E img \in Range(thr[j].image_paths) : Exists(PreprocessedPath(img))

\* the rasters of job j that the step removes from disk
RemovedRasters(j) ==
    { p \in Range(thr[j].image_paths) : Exists(p) /\ p \notin DOMAIN fs' }

\* C21: every raster exists when create_searchable_pdf opens it, the rasters
\* are opened in the order of image_paths, a raster is removed only by the
\* cleanup that follows the saved document and precedes the status write,
\* and when completed is reported every raster other than the upload itself
\* is gone unless its os.remove raised.
C21_RasterDeletedAfterConsumed ==
    /\ [](\A j \in DOMAIN thr :
            /\ \A n \in 1..Len(log[j].opened) :
                   /\ log[j].opened[n].existed
                   /\ log[j].opened[n].path = thr[j].image_paths[n]
            /\ CallsWith(j, "completed") # {} =>
                   \/ log[j].rm_failed
                   \/ \A p \in Range(thr[j].image_paths) :
                          p # thr[j].input_path => ~Exists(p))
    /\ [][\A j \in DOMAIN thr :
            RemovedRasters(j) # {} =>
                /\ thr[j].pc = "cleanup"
                /\ Len(log[j].opened) = Len(thr[j].image_paths)
                /\ log[j].saved
                /\ log[j].status_calls = << >>]_vars

\* both page rasters of a PDF were opened by the compositor while on disk,
\* were removed afterwards, and the job was then reported completed
C21_Witness ==
    \E j \in DOMAIN thr :
        /\ Done(j)
        /\ Len(thr[j].image_paths) = 2
        /\ Len(log[j].opened) = 2
        /\ \A n \in 1..2 : log[j].opened[n].existed
        /\ \A p \in Range(thr[j].image_paths) : ~Exists(p)
        /\ CallsWith(j, "completed") # {}

\* input_to_images has just ended for the image upload of job j, by a return
\* or by an exception other than a failed write of the resized copy
ImageRasterized(j) ==
    /\ ~EndsWithPdf(thr[j].input_path)
    /\ Exists(thr[j].input_path)
    /\ Input(j).fmt = "img"
    /\ \/ thr[j].pc = "ocr" /\ thr[j].i = 0
       \/ /\ thr[j].pc = "except"
          /\ ValueOf(thr[j].e).stage = "input_to_images"
          /\ ValueOf(thr[j].e).text # "OSError"

\* floor(dim * 3000 / m)
FloorScaled(dim, m) == (dim * 3000) \div m

\* C22: for an image whose largest dimension exceeds 3000, input_to_images
\* returns exactly one path, a resized copy other than input_path whose
\* dimensions are floor(dim * 3000 / max(width, height)), at most 3000 and at
\* least 1; for an image whose largest dimension is at most 3000 it returns
\* [input_path] and writes no file.
C22_ResizedToFloor ==
    \A j \in DOMAIN thr :
        ImageRasterized(j) =>
            LET w == Width(Input(j))
                h == Height(Input(j))
                m == Max2(w, h)
            IN  /\ thr[j].pc = "ocr"
                /\ Len(thr[j].image_paths) = 1
                /\ IF m > 3000
                   THEN /\ thr[j].image_paths[1] # thr[j].input_path
                        /\ Exists(thr[j].image_paths[1])
                        /\ Width(fs[thr[j].image_paths[1]]) = FloorScaled(w, m)
                        /\ Height(fs[thr[j].image_paths[1]]) = FloorScaled(h, m)
                        /\ Width(fs[thr[j].image_paths[1]]) \in 1..3000
                        /\ Height(fs[thr[j].image_paths[1]]) \in 1..3000
                   ELSE /\ thr[j].image_paths = <<thr[j].input_path>>
                        /\ log[j].created = {}

\* the step starts the worker thread of job j
Starts(j) == j \notin DOMAIN thr /\ j \in DOMAIN thr'

\* the step inserts the row of job j
Inserts(j) == j \notin DOMAIN uploads /\ j \in DOMAIN uploads'

\* C23: a worker thread exists only for an upload with an allowed extension
\* whose file is on disk; the row of a job is inserted by the step that starts
\* its thread, before the thread has reported any status, and never later;
\* rows and threads appear only with a job id drawn by the try block of
\* upload_file, so a request answered 400 creates no row, file or thread.
C23_ThreadAfterSaveAndInsert ==
    /\ [](/\ \A j \in DOMAIN thr :
                /\ Exists(thr[j].input_path)
                /\ Lower(Last(thr[j].input_path)) \in {"jpg", "jpeg", "png", "pdf"}
                /\ \A n \in 1..Len(log[j].status_calls) :
                       log[j].status_calls[n].committed => HasRow(j)
          /\ \A j \in DOMAIN uploads :
                /\ j \in DOMAIN thr
                /\ uploads[j].file_type \in {"jpg", "jpeg", "png", "pdf"}
          /\ Cardinality(DOMAIN thr) <= drawn)
    /\ [][/\ \A j \in JobIds :
                /\ Inserts(j) => Starts(j)
                /\ Starts(j) =>
                       /\ thr'[j].input_path \in DOMAIN fs'
                       /\ thr'[j].pc = "input_to_images"
                       /\ log'[j].status_calls = << >>
                       /\ drawn' = drawn + 1
          /\ drawn' = drawn =>
                /\ DOMAIN uploads' = DOMAIN uploads
                /\ DOMAIN thr' = DOMAIN thr
                /\ \A p \in DOMAIN fs' \ DOMAIN fs :
                       \E j \in DOMAIN thr : p \in Touched(j, thr', log')]_vars

\* the thread of an upload named a.PDF wrote its terminal status into the row
\* that upload_file had inserted
C23_Witness ==
    \E j \in DOMAIN thr :
        /\ Done(j)
        /\ HasRow(j)
        /\ Last(thr[j].input_path) = "PDF"
        /\ Terminal(uploads[j].status)
        /\ log[j].status_calls[1].committed

\* the blocks of page p of job j whose insert_text did not raise
RenderedOn(j, p) == Rendered(thr[j].all_blocks[p], 1, FailedOn(j, p))

\* C24: when the compositor is invoked there are as many block lists as page
\* rasters and list i holds exactly the blocks detected on raster i; output
\* page i shows raster i and its text runs are, one for one and in order,
\* the blocks of list i, so no block is rendered on another raster's page.
C24_BlocksStayOnTheirPage ==
    \A j \in DOMAIN thr :
        /\ log[j].compose_calls >= 1 =>
              /\ Len(thr[j].all_blocks) = Len(thr[j].image_paths)
              /\ \A i \in 1..Len(thr[j].all_blocks) :
                     Returned(thr[j].all_blocks[i]) = KeptFrom(Dets(j, i), 1, 31)
        /\ \A p \in 1..Len(thr[j].doc) :
              /\ thr[j].doc[p].image = thr[j].image_paths[p]
              /\ thr[j].doc[p].source = Input(j).pages[p].page
              /\ Len(thr[j].doc[p].runs) = Len(RenderedOn(j, p))
              /\ \A r \in 1..Len(thr[j].doc[p].runs) :
                     /\ thr[j].doc[p].runs[r].text = RenderedOn(j, p)[r].text
                     /\ thr[j].doc[p].runs[r].x = RenderedOn(j, p)[r].bbox[4][1]
                     /\ thr[j].doc[p].runs[r].y = RenderedOn(j, p)[r].bbox[4][2]
                     /\ \E m \in 1..Len(Dets(j, p)) :
                            thr[j].doc[p].runs[r].text = Strip(Dets(j, p)[m].text)

\* a two-page PDF whose pages carry different text went through the
\* compositor: one run on the first page, three on the second
C24_Witness ==
    \E j \in DOMAIN thr :
        /\ Composed(j)
        /\ Len(thr[j].doc) = 2
        /\ Dets(j, 1) # Dets(j, 2)
        /\ Len(thr[j].doc[1].runs) = 1
        /\ Len(thr[j].doc[2].runs) = 3
        /\ thr[j].doc[1].runs[1].text = <<"I", "n", "v">>

====
